---- MODULE Spec2Model ----
(***************************************************************************)
(* Lead follow-up job (script_lead_followup.py).                           *)
(*                                                                         *)
(* The document store holds the collections `leads` and `registros`.  An   *)
(* invocation of main() initialises the store client, reads the clock,     *)
(* queries the pending leads, filters them locally and then, lead by lead, *)
(* looks up a registration, sends the follow-up e-mail and marks the lead. *)
(* Every call to the store or to the e-mail provider is one step, and each *)
(* such call may fail.  Invocations are operating-system processes: two of *)
(* them (p1, started first, and p2) may be alive at once, or p2 may start  *)
(* after p1 has ended.  Time is counted in hours.                          *)
(***************************************************************************)
EXTENDS Integers, Sequences, FiniteSets

\* ---------------------------------------------------------------- bounds
\* The first invocation starts at FirstNow, the second one at a time in
\* FirstNow..MaxNow.  The leads collection holds the documents LeadIds and
\* two invocations Procs are followed.
MaxNow == 50           \* latest time at which the second invocation starts

\* ------------------------------------------------------------- constants
ONE_HOUR == 1          \* timedelta(hours=1)
TWO_DAYS == 48         \* timedelta(days=2)
NoTime == -1           \* a lead document without createdAt (.get gives None)
NoVal == ""            \* a missing or empty email / imei (falsy in Python)
RESEND_KEY == "re_key" \* a configured RESEND_API_KEY
\* a configured RESEND_API_KEY that http.client refuses in a header: it holds a
\* character outside latin-1 (UnicodeEncodeError) or ends in a newline
\* (ValueError)
BAD_KEY == "re_key_bad_header"
ApiKeys == {NoVal, RESEND_KEY, BAD_KEY}   \* os.getenv('RESEND_API_KEY')

LeadIds == {1, 2}      \* ids of the documents of the leads collection
Procs == {"p1", "p2"}  \* the invocations of the script
FirstNow == TWO_DAYS + ONE_HOUR
StartTimes(p) == IF p = "p1" THEN {FirstNow} ELSE FirstNow..MaxNow
CreatedTimes == {NoTime, ONE_HOUR, TWO_DAYS, TWO_DAYS + ONE_HOUR}
Emails == {NoVal, "a@x.com"}
Imeis == {NoVal, "123"}
\* registrations the upstream purchase flow may create
RegistroDocs == {[customerEmail |-> "a@x.com", imei1 |-> "123"],
                 [customerEmail |-> "a@x.com", imei1 |-> "999"]}
LeadData == [email : Emails, imei : Imeis, createdAt : CreatedTimes,
             followUpSent : BOOLEAN]
CredsValues == {"ok", "missing", "malformed"}  \* FIREBASE_SERVICE_ACCOUNT
\* what the provider does with the POST: the connection is opened and the
\* final answer is a 2xx, another status below 400 (a 3xx that is not followed,
\* such as 304) or a 4xx or 5xx (raise_for_status raises HTTPError); or there
\* is no answer because the connection cannot be opened or breaks (requests
\* raises a RequestException)
SendOutcomes == {"2xx", "3xx", "4xx5xx", "transport"}

VARIABLES
    leads,        \* collection leads: id -> document
    registros,    \* collection registros: set of documents
    clock,        \* the latest reading of datetime.now(timezone.utc), in hours
    pc,           \* per process: position of main()
    now,          \* per process: the local `now`
    apiKey,       \* per process: the local resend_api_key
    toProcess,    \* per process: leads_to_process (document snapshots)
    idx,          \* per process: position of the for loop in leads_to_process
    \* history of each invocation (what it called, never read by the program)
    unsentAtQuery,\* ids with followUpSent = FALSE when the leads query ran
    pending,      \* all_pending_leads, as the query returned them
    sentAtStart,  \* ids with followUpSent = TRUE when the invocation started
    lookups,      \* ids for which the registros query was issued
    regAtCheck,   \* ids for which a registration of the same email and imei existed at the lookup
    sends,        \* calls of send_resend_email: <<[lead, to, imei, outcome]>>
    writes,       \* ids whose document the invocation updated
    failedCall,   \* the external call that raised, "" if none
    \* history of the whole system
    delivered,    \* per lead: number of send_resend_email calls that returned True
    overlapped    \* TRUE once an invocation started while the other was running

vars == <<leads, registros, clock, pc, now, apiKey, toProcess, idx,
          unsentAtQuery, pending, sentAtStart, lookups, regAtCheck, sends,
          writes, failedCall, delivered, overlapped>>

\* ------------------------------------------------------------- helpers
Active(p) == pc[p] \in {"query", "loop", "mark_converted", "send", "mark_sent"}
\* each invocation runs once; p2 is the later one
CanStart(p) == pc[p] = "idle" /\ (p = "p2" => pc["p1"] # "idle")

\* QueryDocumentSnapshot: id and to_dict()
Doc(store, l) == [id |-> l, data |-> store[l]]

\* ORDER BY createdAt DESC (ties by document name, same direction)
Before(store, x, y) ==
    \/ store[x].createdAt > store[y].createdAt
    \/ store[x].createdAt = store[y].createdAt /\ x >= y

RECURSIVE OrderDesc(_, _)
OrderDesc(store, S) ==
    IF S = {} THEN <<>>
    ELSE LET first == CHOOSE x \in S : \A y \in S : Before(store, x, y)
         IN <<Doc(store, first)>> \o OrderDesc(store, S \ {first})

\* the upper bound of the query written as a strict comparison
PendingQuery_Strict(store, one_hour_ago) ==
    {l \in DOMAIN store : /\ store[l].followUpSent = FALSE
                          /\ store[l].createdAt # NoTime
                          /\ store[l].createdAt < one_hour_ago}

\* the query without its followUpSent filter
PendingQuery_AnyFlag(store, one_hour_ago) ==
    {l \in DOMAIN store : /\ store[l].createdAt # NoTime
                          /\ store[l].createdAt <= one_hour_ago}

\* leads_ref.where('followUpSent','==',False).where('createdAt','<=',one_hour_ago)
\* (a document without the field never satisfies a range filter on it)
PendingQuery(store, one_hour_ago) ==
    {l \in DOMAIN store : /\ store[l].followUpSent = FALSE
                          /\ store[l].createdAt # NoTime
                          /\ store[l].createdAt <= one_hour_ago}

\* list(leads_query.stream())
AllPendingLeads(store, one_hour_ago) ==
    OrderDesc(store, PendingQuery(store, one_hour_ago))

\* the local filter written as a strict comparison
KeepLead_Strict(doc, two_days_ago) ==
    doc.data.createdAt # NoTime /\ doc.data.createdAt > two_days_ago

\* the list comprehension building leads_to_process
KeepLead(doc, two_days_ago) ==
    doc.data.createdAt # NoTime /\ doc.data.createdAt >= two_days_ago

LeadsToProcess(all_pending_leads, two_days_ago) ==
    SelectSeq(all_pending_leads, LAMBDA d : KeepLead(d, two_days_ago))

\* the lookup with its two arguments swapped
RegistroExists_Swapped(regs, lead_email, lead_imei) ==
    \E g \in regs : g.customerEmail = lead_imei /\ g.imei1 = lead_email

\* registros.where('customerEmail','==',e).where('imei1','==',i).limit(1): any(...)
RegistroExists(regs, lead_email, lead_imei) ==
    \E g \in regs : g.customerEmail = lead_email /\ g.imei1 = lead_imei

\* the skip test on the email alone
MissingField_EmailOnly(data) == data.email = NoVal

\* if not lead_email or not lead_imei
MissingField(data) == data.email = NoVal \/ data.imei = NoVal

\* requests.post raises an exception that is no RequestException and passes
\* the except clause of send_resend_email: the https connection is opened
\* first, then http.client refuses the Authorization header built from
\* api_key.  When the connection cannot be opened the header is never written
\* and requests raises ConnectionError, which the except clause catches.
PostRaises(api_key, outcome) == api_key = BAD_KEY /\ outcome # "transport"

\* send_resend_email: its return value for what the POST did.  It returns
\* False without api_key and when requests raises (transport error, or
\* raise_for_status on a 4xx/5xx answer), and True otherwise.
EmailSent(api_key, outcome) == api_key # NoVal /\ outcome \in {"2xx", "3xx"}

\* an update that leaves the document as it was
UpdateFollowUpSent_Noop(store, lead_id) == store

\* document(lead_id).update({'followUpSent': True})
UpdateFollowUpSent(store, lead_id) ==
    [store EXCEPT ![lead_id].followUpSent = TRUE]

\* initialize_firebase: TRUE when it returns a client, FALSE when it raises
InitializeFirebase(creds) == creds = "ok"

Cur(p) == toProcess[p][idx[p]]

\* the for loop moves to its next element, or main() returns
AfterLead(p) == IF idx[p] < Len(toProcess[p]) THEN "loop" ELSE "done"

\* ---------------------------------------------------------------- Init
Init ==
    /\ leads \in [LeadIds -> {d \in LeadData : d.followUpSent = FALSE}]
    /\ registros = {}
    /\ clock = FirstNow
    /\ pc = [p \in Procs |-> "idle"]
    /\ now = [p \in Procs |-> 0]
    /\ apiKey = [p \in Procs |-> NoVal]
    /\ toProcess = [p \in Procs |-> <<>>]
    /\ idx = [p \in Procs |-> 0]
    /\ unsentAtQuery = [p \in Procs |-> {}]
    /\ pending = [p \in Procs |-> <<>>]
    /\ sentAtStart = [p \in Procs |-> {}]
    /\ lookups = [p \in Procs |-> {}]
    /\ regAtCheck = [p \in Procs |-> {}]
    /\ sends = [p \in Procs |-> <<>>]
    /\ writes = [p \in Procs |-> {}]
    /\ failedCall = [p \in Procs |-> ""]
    /\ delivered = [l \in LeadIds |-> 0]
    /\ overlapped = FALSE

\* ------------------------------------------------------------ environment
\* the upstream purchase flow stores a registration
RegisterDevice(g) ==
    /\ g \notin registros
    /\ registros' = registros \cup {g}
    /\ UNCHANGED <<leads, clock, pc, now, apiKey, toProcess, idx, unsentAtQuery, pending,
                   sentAtStart, lookups, regAtCheck, sends, writes, failedCall,
                   delivered, overlapped>>

\* ------------------------------------------------------------------ main
\* lines 109-118: initialize_firebase, getenv, now.  The invocation starts at
\* time t, no earlier than the previous reading of the clock.
StartRun(p, creds, key, t) ==
    /\ CanStart(p)
    /\ t >= clock
    /\ clock' = t
    /\ pc' = [pc EXCEPT ![p] = IF InitializeFirebase(creds) THEN "query" ELSE "aborted"]
    /\ now' = [now EXCEPT ![p] = IF InitializeFirebase(creds) THEN t ELSE @]
    /\ apiKey' = [apiKey EXCEPT ![p] = IF InitializeFirebase(creds) THEN key ELSE @]
    /\ sentAtStart' = [sentAtStart EXCEPT ![p] = {l \in LeadIds : leads[l].followUpSent}]
    /\ failedCall' = [failedCall EXCEPT ![p] = IF InitializeFirebase(creds) THEN "" ELSE "init"]
    /\ overlapped' = (overlapped \/ (InitializeFirebase(creds) /\ \E q \in Procs \ {p} : Active(q)))
    /\ UNCHANGED <<leads, registros, toProcess, idx, unsentAtQuery, pending,
                   lookups, regAtCheck, sends, writes, delivered>>

\* an external call raises and nothing catches it: the process dies
Raise(p, call) ==
    /\ pc' = [pc EXCEPT ![p] = "crashed"]
    /\ failedCall' = [failedCall EXCEPT ![p] = call]

\* lines 120-140: the query and the local filter
FetchLeads(p) ==
    /\ pc[p] = "query"
    /\ LET all_pending_leads == AllPendingLeads(leads, now[p] - ONE_HOUR)
           leads_to_process == LeadsToProcess(all_pending_leads, now[p] - TWO_DAYS)
       IN /\ unsentAtQuery' = [unsentAtQuery EXCEPT ![p] =
                                 {l \in LeadIds : ~leads[l].followUpSent}]
          /\ pending' = [pending EXCEPT ![p] = all_pending_leads]
          /\ toProcess' = [toProcess EXCEPT ![p] = leads_to_process]
          /\ idx' = [idx EXCEPT ![p] = IF leads_to_process = <<>> THEN 0 ELSE 1]
          /\ pc' = [pc EXCEPT ![p] = IF leads_to_process = <<>> THEN "done" ELSE "loop"]
    /\ UNCHANGED <<leads, registros, clock, now, apiKey, sentAtStart, lookups,
                   regAtCheck, sends, writes, failedCall, delivered, overlapped>>

FetchLeadsFails(p) ==
    /\ pc[p] = "query"
    /\ Raise(p, "query")
    /\ UNCHANGED <<leads, registros, clock, now, apiKey, toProcess, idx, unsentAtQuery, pending,
                   sentAtStart, lookups, regAtCheck, sends, writes, delivered, overlapped>>

\* lines 150-152: a lead without email or imei is skipped
SkipLead(p) ==
    /\ pc[p] = "loop"
    /\ MissingField(Cur(p).data)
    /\ pc' = [pc EXCEPT ![p] = AfterLead(p)]
    /\ idx' = [idx EXCEPT ![p] = idx[p] + 1]
    /\ UNCHANGED <<leads, registros, clock, now, apiKey, toProcess, unsentAtQuery, pending,
                   sentAtStart, lookups, regAtCheck, sends, writes, failedCall,
                   delivered, overlapped>>

\* lines 157-162: the registros lookup
CheckRegistro(p) ==
    /\ pc[p] = "loop"
    /\ ~MissingField(Cur(p).data)
    /\ pc' = [pc EXCEPT ![p] =
                IF RegistroExists(registros, Cur(p).data.email, Cur(p).data.imei)
                THEN "mark_converted" ELSE "send"]
    /\ lookups' = [lookups EXCEPT ![p] = @ \cup {Cur(p).id}]
    /\ regAtCheck' = [regAtCheck EXCEPT ![p] =
                IF \E g \in registros : /\ g.customerEmail = leads[Cur(p).id].email
                                        /\ g.imei1 = leads[Cur(p).id].imei
                THEN @ \cup {Cur(p).id} ELSE @]
    /\ UNCHANGED <<leads, registros, clock, now, apiKey, toProcess, idx, unsentAtQuery, pending,
                   sentAtStart, sends, writes, failedCall, delivered, overlapped>>

CheckRegistroFails(p) ==
    /\ pc[p] = "loop"
    /\ ~MissingField(Cur(p).data)
    /\ Raise(p, "lookup")
    /\ lookups' = [lookups EXCEPT ![p] = @ \cup {Cur(p).id}]
    /\ UNCHANGED <<leads, registros, clock, now, apiKey, toProcess, idx, unsentAtQuery, pending,
                   sentAtStart, regAtCheck, sends, writes, delivered, overlapped>>

\* lines 163-165: a registration exists, the lead is marked and not mailed
MarkConverted(p) ==
    /\ pc[p] = "mark_converted"
    /\ leads' = UpdateFollowUpSent(leads, Cur(p).id)
    /\ writes' = [writes EXCEPT ![p] = @ \cup {Cur(p).id}]
    /\ pc' = [pc EXCEPT ![p] = AfterLead(p)]
    /\ idx' = [idx EXCEPT ![p] = idx[p] + 1]
    /\ UNCHANGED <<registros, clock, now, apiKey, toProcess, unsentAtQuery, pending, sentAtStart,
                   lookups, regAtCheck, sends, failedCall, delivered, overlapped>>

\* line 168: send_resend_email returns
SendEmail(p, outcome) ==
    /\ pc[p] = "send"
    /\ ~PostRaises(apiKey[p], outcome)
    /\ LET lead == Cur(p)
           res == IF apiKey[p] = NoVal THEN "no_key" ELSE outcome
           ok == EmailSent(apiKey[p], outcome)
       IN /\ sends' = [sends EXCEPT ![p] = Append(@,
                         [lead |-> lead.id, to |-> lead.data.email,
                          imei |-> lead.data.imei, outcome |-> res])]
          /\ delivered' = [delivered EXCEPT ![lead.id] = IF ok THEN @ + 1 ELSE @]
          /\ pc' = [pc EXCEPT ![p] = IF ok THEN "mark_sent" ELSE AfterLead(p)]
          /\ idx' = [idx EXCEPT ![p] = IF ok THEN @ ELSE @ + 1]
    /\ UNCHANGED <<leads, registros, clock, now, apiKey, toProcess, unsentAtQuery, pending,
                   sentAtStart, lookups, regAtCheck, writes, failedCall, overlapped>>

\* lines 168 and 94: requests.post raises an exception that send_resend_email
\* does not catch, before any request leaves; it passes main as well
SendEmailRaises(p, outcome) ==
    /\ pc[p] = "send"
    /\ PostRaises(apiKey[p], outcome)
    /\ Raise(p, "send")
    /\ sends' = [sends EXCEPT ![p] = Append(@,
                   [lead |-> Cur(p).id, to |-> Cur(p).data.email,
                    imei |-> Cur(p).data.imei, outcome |-> "header_error"])]
    /\ UNCHANGED <<leads, registros, clock, now, apiKey, toProcess, idx, unsentAtQuery,
                   pending, sentAtStart, lookups, regAtCheck, writes, delivered,
                   overlapped>>

\* lines 170-172: the e-mail went out, the lead is marked
MarkSent(p) ==
    /\ pc[p] = "mark_sent"
    /\ leads' = UpdateFollowUpSent(leads, Cur(p).id)
    /\ writes' = [writes EXCEPT ![p] = @ \cup {Cur(p).id}]
    /\ pc' = [pc EXCEPT ![p] = AfterLead(p)]
    /\ idx' = [idx EXCEPT ![p] = idx[p] + 1]
    /\ UNCHANGED <<registros, clock, now, apiKey, toProcess, unsentAtQuery, pending, sentAtStart,
                   lookups, regAtCheck, sends, failedCall, delivered, overlapped>>

\* lines 164 and 171: the update raises
UpdateFails(p) ==
    /\ pc[p] \in {"mark_converted", "mark_sent"}
    /\ Raise(p, "update")
    /\ UNCHANGED <<leads, registros, clock, now, apiKey, toProcess, idx, unsentAtQuery, pending,
                   sentAtStart, lookups, regAtCheck, sends, writes, delivered, overlapped>>

Next ==
    \/ \E g \in RegistroDocs : RegisterDevice(g)
    \/ \E p \in Procs, c \in CredsValues, k \in ApiKeys :
          \E t \in StartTimes(p) :
            StartRun(p, c, k, t)
    \/ \E p \in Procs : FetchLeads(p)
    \/ \E p \in Procs : FetchLeadsFails(p)
    \/ \E p \in Procs : SkipLead(p)
    \/ \E p \in Procs : CheckRegistro(p)
    \/ \E p \in Procs : CheckRegistroFails(p)
    \/ \E p \in Procs : MarkConverted(p)
    \/ \E p \in Procs, o \in SendOutcomes : SendEmail(p, o)
    \/ \E p \in Procs, o \in SendOutcomes : SendEmailRaises(p, o)
    \/ \E p \in Procs : MarkSent(p)
    \/ \E p \in Procs : UpdateFails(p)

Spec == Init /\ [][Next]_vars

\* ===================================================================
\* Properties
\* ===================================================================
Ids(docs) == {docs[i].id : i \in 1..Len(docs)}
Selected(p) == Ids(toProcess[p])
\* the leads query of p has returned
Fetched(p) ==
    \/ pc[p] \in {"loop", "mark_converted", "send", "mark_sent", "done"}
    \/ pc[p] = "crashed" /\ failedCall[p] \in {"lookup", "send", "update"}
\* the follow-up window, as one compound range
InWindow(t, n) == t # NoTime /\ t <= n - ONE_HOUR /\ t >= n - TWO_DAYS
LacksField(l) == leads[l].email = NoVal \/ leads[l].imei = NoVal
SendsFor(p, l) == {i \in 1..Len(sends[p]) : sends[p][i].lead = l}
\* the send failed: no API key, an answer that is not 2xx, or a transport error
FailedSend(p, l) ==
    \E i \in SendsFor(p, l) :
        sends[p][i].outcome \in {"no_key", "3xx", "4xx5xx", "transport"}
GoodSend(p, l) ==
    \E i \in SendsFor(p, l) : /\ sends[p][i].outcome = "2xx"
                              /\ sends[p][i].to = leads[l].email
\* the for loop of p stands at lead l / has left lead l behind
AtLead(p, l) == idx[p] \in 1..Len(toProcess[p]) /\ Cur(p).id = l
Passed(p, l) == \E i \in 1..Len(toProcess[p]) : toProcess[p][i].id = l /\ i < idx[p]
UpdateRaisedAt(p, l) == pc[p] = "crashed" /\ failedCall[p] = "update" /\ AtLead(p, l)
LookupRaisedAt(p, l) == pc[p] = "crashed" /\ failedCall[p] = "lookup" /\ AtLead(p, l)

\* C1: once the leads query of a run has returned, the leads the run goes on
\* to process (server-side query, then local post-filter) are exactly the
\* leads that had followUpSent = false when the query ran and whose createdAt
\* lies in [now - 2 days, now - 1 hour]; the server-side step alone returns
\* the pending leads with createdAt <= now - 1 hour.
C1_SelectionIsCompoundRange ==
    \A p \in Procs : Fetched(p) =>
        /\ Selected(p) = {l \in unsentAtQuery[p] : InWindow(leads[l].createdAt, now[p])}
        /\ Ids(pending[p]) = {l \in unsentAtQuery[p] :
                                 /\ leads[l].createdAt # NoTime
                                 /\ leads[l].createdAt <= now[p] - ONE_HOUR}
        /\ Selected(p) \subseteq Ids(pending[p])
        /\ (pc[p] = "done" => idx[p] = Len(toProcess[p]) + (IF toProcess[p] = <<>> THEN 0 ELSE 1))

\* a run whose local post-filter dropped a lead the server had returned
C1_Witness ==
    \E p \in Procs : /\ pc[p] = "done"
                     /\ Selected(p) # {}
                     /\ Ids(pending[p]) \ Selected(p) # {}

\* C2 as stated: a pending lead created exactly at now - 1 hour is excluded
\* from the processing set and one created exactly at now - 2 days is included.
C2_OneHourBoundaryExcluded ==
    \A p \in Procs : Fetched(p) => \A l \in unsentAtQuery[p] :
        /\ leads[l].createdAt = now[p] - ONE_HOUR => l \notin Selected(p)
        /\ leads[l].createdAt = now[p] - TWO_DAYS => l \in Selected(p)

\* C2 amended: a pending lead created exactly at now - 1 hour is included in
\* the processing set (the query bound is <=), and so is a pending lead
\* created exactly at now - 2 days (the filter bound is >=).
C2_BothBoundariesIncluded ==
    \A p \in Procs : Fetched(p) => \A l \in unsentAtQuery[p] :
        /\ leads[l].createdAt = now[p] - ONE_HOUR => l \in Selected(p)
        /\ leads[l].createdAt = now[p] - TWO_DAYS => l \in Selected(p)

\* a run that selected one lead on each boundary
C2_Witness ==
    \E p \in Procs : \E l, m \in Selected(p) :
        /\ Fetched(p)
        /\ leads[l].createdAt = now[p] - ONE_HOUR
        /\ leads[m].createdAt = now[p] - TWO_DAYS

\* C3: when the lookup of a run for a lead (email and imei present) ran while
\* a registration with that customerEmail and that imei1 existed, the run
\* makes no send for the lead and its next call is the update of the lead:
\* once the run has left the lead behind, followUpSent is true; until then the
\* run stands at that update, or the update raised and ended the run.
C3_ConvertedMarkedNotMailed ==
    \A p \in Procs : \A l \in regAtCheck[p] :
        /\ ~LacksField(l)
        /\ SendsFor(p, l) = {}
        /\ Passed(p, l) => l \in writes[p] /\ leads[l].followUpSent
        /\ ~Passed(p, l) => AtLead(p, l) /\ (pc[p] = "mark_converted" \/ UpdateRaisedAt(p, l))

\* a finished run that marked a converted lead without mailing it
C3_Witness ==
    \E p \in Procs : \E l \in regAtCheck[p] :
        /\ pc[p] = "done"
        /\ l \in writes[p]
        /\ leads[l].followUpSent
        /\ SendsFor(p, l) = {}

\* a registration of both the email and the imei of lead l is stored; the
\* job never deletes a registration, so a lead that is not registered now was
\* not registered at any earlier time of the run
Registered(l) ==
    \E g \in registros : g.customerEmail = leads[l].email /\ g.imei1 = leads[l].imei

\* C4 as stated: within one run no lead gets more than one send; every send
\* goes to a selected lead with both fields whose lookup found no registration
\* of both its email and its imei, is addressed to that lead's email and
\* carries that lead's imei; and once the run has ended, every selected lead
\* with both fields and without a registration of both its email and its imei
\* (a registration of its email and another imei does not count) has got
\* exactly one send.
C4_EveryUnconvertedLeadSentOnce ==
    \A p \in Procs :
        /\ \A l \in LeadIds : Cardinality(SendsFor(p, l)) <= 1
        /\ \A i \in 1..Len(sends[p]) :
              LET l == sends[p][i].lead
              IN /\ l \in Selected(p) /\ l \in lookups[p] /\ l \notin regAtCheck[p]
                 /\ ~LacksField(l)
                 /\ sends[p][i].to = leads[l].email
                 /\ sends[p][i].imei = leads[l].imei
        /\ (Fetched(p) /\ pc[p] \in {"done", "crashed"}) =>
              \A l \in Selected(p) : (~LacksField(l) /\ ~Registered(l)) =>
                  Cardinality(SendsFor(p, l)) = 1

\* C5 as stated: a run whose send for a lead failed (no API key, non-2xx answer
\* or transport error) never updates that lead and moves on to the next lead;
\* while no other run has started the lead's followUpSent is still false, and
\* a later run that does not overlap selects the lead again if it is still
\* in the window; a run without API key still marks the leads whose lookup
\* found a registration.
C5_FailedSendLeavesLeadPending ==
    /\ \A p \in Procs : \A l \in LeadIds : FailedSend(p, l) =>
          /\ l \notin writes[p]
          /\ Passed(p, l)
          /\ pc[p] \in {"loop", "mark_converted", "send", "mark_sent", "done", "crashed"}
          /\ ~(pc[p] = "crashed" /\ failedCall[p] \notin {"lookup", "send", "update"})
    /\ \A l \in LeadIds : FailedSend("p1", l) =>
          /\ pc["p2"] = "idle" => ~leads[l].followUpSent
          /\ (~overlapped /\ Fetched("p2") /\ InWindow(leads[l].createdAt, now["p2"]))
                => l \in Selected("p2")
    /\ \A p \in Procs : \A l \in regAtCheck[p] :
          (apiKey[p] = NoVal /\ Passed(p, l)) => l \in writes[p] /\ leads[l].followUpSent

\* C6: a selected lead that lacks email or imei gets no registration lookup,
\* no send and no update from the run, the run goes on past it (a run that
\* ends normally has gone through its whole list), the lead's followUpSent
\* stays false, and every run whose query returns while the lead is in the
\* window selects it again.
C6_LeadWithoutFieldSkipped ==
    \A p \in Procs : \A l \in LeadIds : LacksField(l) =>
        /\ l \notin lookups[p]
        /\ SendsFor(p, l) = {}
        /\ l \notin writes[p]
        /\ ~leads[l].followUpSent
        /\ AtLead(p, l) => pc[p] = "loop"
        /\ (pc[p] = "done" /\ l \in Selected(p)) => Passed(p, l)
        /\ (Fetched(p) /\ InWindow(leads[l].createdAt, now[p])) => l \in Selected(p)

\* both runs selected the same lead without imei, and the first one went on
\* to mail the lead after it
C6_Witness ==
    \E l \in LeadIds :
        /\ leads[l].imei = NoVal /\ leads[l].email # NoVal
        /\ l \in Selected("p1") /\ l \in Selected("p2")
        /\ pc["p1"] = "done" /\ pc["p2"] = "done"
        /\ \E i, j \in 1..Len(toProcess["p1"]) :
              /\ i < j
              /\ toProcess["p1"][i].id = l
              /\ SendsFor("p1", toProcess["p1"][j].id) # {}

\* a lead that has followUpSent = true when a run starts is not returned by
\* that run's query, not selected, not looked up, not mailed, not updated
C7_SentLeadUntouched ==
    \A p \in Procs : \A l \in sentAtStart[p] :
        /\ l \notin Ids(pending[p])
        /\ l \notin Selected(p)
        /\ l \notin lookups[p]
        /\ l \notin writes[p]
        /\ SendsFor(p, l) = {}

\* C7: followUpSent never goes from true to false, and a lead that has
\* followUpSent = true when a run starts is not returned by that run's query,
\* not selected, not looked up, not mailed and not updated by that run.
C7_FollowUpSentIsTerminal ==
    /\ []C7_SentLeadUntouched
    /\ [][\A l \in LeadIds : leads[l].followUpSent => leads'[l].followUpSent]_vars

\* the second run started with a marked lead still in the window, left it
\* alone and processed another lead
C7_Witness ==
    \E l \in sentAtStart["p2"] :
        /\ pc["p2"] = "done"
        /\ InWindow(leads[l].createdAt, now["p2"])
        /\ Selected("p2") # {}
        /\ leads[l].followUpSent

\* C8 as stated: no run ends in an uncaught exception; a failure of an
\* external call either aborts the run before the query (configuration) or
\* lets it continue.
C8_NoUncaughtFailure ==
    \A p \in Procs : pc[p] # "crashed"

\* C9: while runs have not overlapped and no update has raised, no lead has
\* had more than one send return success over all runs.  (When two runs overlap,
\* the state C9_Witness is reached.)
C9_SerialRunsDeliverOnce ==
    (~overlapped /\ \A p \in Procs : failedCall[p] # "update") =>
        \A l \in LeadIds : delivered[l] <= 1

\* two overlapping runs both selected the same pending lead and both got a
\* 2xx answer for it before either wrote followUpSent
C9_Witness ==
    \E l \in LeadIds :
        /\ overlapped
        /\ \A p \in Procs : pc[p] = "mark_sent" /\ AtLead(p, l) /\ GoodSend(p, l)
        /\ delivered[l] = 2
        /\ ~leads[l].followUpSent

\* every step that turns a lead's followUpSent from false to true is the
\* update of a run that found a registration of the lead's email and imei at
\* its lookup, or that got a 2xx answer to its send to the lead's email
\* before; no step changes another field of a lead or the set of leads; and
\* a step that changes the registrations is no step of a run.
C10_MarkStep ==
    \A l \in LeadIds : (~leads[l].followUpSent /\ leads'[l].followUpSent) =>
        \E p \in Procs : /\ l \in writes'[p]
                         /\ pc[p] \in {"mark_converted", "mark_sent"}
                         /\ pc'[p] # pc[p]
                         /\ AtLead(p, l)
                         /\ \/ pc[p] = "mark_converted" /\ l \in regAtCheck[p]
                            \/ pc[p] = "mark_sent" /\ GoodSend(p, l)

C10_OnlyFlagWritten ==
    /\ DOMAIN leads' = DOMAIN leads
    /\ \A l \in LeadIds : /\ leads'[l].email = leads[l].email
                          /\ leads'[l].imei = leads[l].imei
                          /\ leads'[l].createdAt = leads[l].createdAt
    /\ registros' # registros => (pc' = pc /\ leads' = leads /\ sends' = sends)

\* C10 as stated: every step that turns a lead's followUpSent from false to true
\* is the update of a run whose lookup found a registration of the lead's email and
\* imei, or whose send to the lead's email got a 2xx answer before; the job
\* changes no other field of a lead, never the set of leads and never the
\* registrations.
C10_MarkingHasCause == [][C10_MarkStep /\ C10_OnlyFlagWritten]_vars

====
